---- MODULE Spec2Model ----
(***************************************************************************)
(* Measurement core of diffraction-capture: the band-width estimator       *)
(* (backend/app.py and diffraction_capture/backend/app.py), the peak       *)
(* spacing estimator (fringe_eval.py) and the autocorrelation estimator    *)
(* (measure_fringes.py).  Every estimator is a pure function of an image   *)
(* or profile and a few configuration scalars; a specification draws the   *)
(* inputs in Init and its actions apply the estimator.                     *)
(*                                                                         *)
(* The code computes in binary floating point, and so does the model: a   *)
(* float is the pair <<m, e>> of an odd mantissa (a natural number of any  *)
(* size) and an exponent, and every division, product and difference is    *)
(* rounded to 24 or 53 digits, ties to even, as float32 and float64 round.  *)
(* A number typed or passed as a decimal is the ratio <<num, den>> it       *)
(* denotes until the code makes a float of it.  Python's None is the empty  *)
(* sequence, a value v is <<v>>.  One computation is not followed digit by  *)
(* digit: the FFT autocorrelation is the lag sum of the float32 samples it  *)
(* approximates, and where two sums are closer than a float64 FFT resolves  *)
(* the estimator can return either lag.                                     *)
(***************************************************************************)
EXTENDS Integers, Sequences, FiniteSets

VARIABLES
    pc,               \* "ready" before an estimator ran, "done" after ("frame_done"
                      \* after the OpenCV variant, "again" after a second
                      \* measurement, "raised" when find_fringe_spacing raised)
    gray,             \* the 2-D image handed to an estimator: a sequence of rows
    threshold_ratio,  \* _estimate_slit_width: threshold_ratio
    slit_width,       \* backend/app.py _estimate_slit_width: the returned width, or None
    smooth_profile,   \* diffraction_capture/backend/app.py _estimate_slit_width:
                      \* smooth_profile of line 60, a sequence of float32 values
    best_width,       \* diffraction_capture/backend/app.py _estimate_slit_width: the
                      \* returned width, or None when it raises ValueError
    peak_threshold,   \* find_fringe_spacing: peak_threshold
    max_std_ratio,    \* find_fringe_spacing: max_std_ratio
    min_peaks,        \* find_fringe_spacing: min_peaks
    peaks,            \* find_fringe_spacing: the returned peak list (0-based columns)
    spacing,          \* find_fringe_spacing: the returned spacing, <<float>> of the
                      \* mean of the valid spacings, or None
    edge_profile,     \* estimate_fringe_spacing_px: the edge profile of line 211, as the
                      \* number of edge pixels of each column (the code's sample is
                      \* 255 times that)
    lag,              \* estimate_fringe_spacing_px: <<lag>> once line 230 ran, else None
    spacing_px,       \* estimate_fringe_spacing_px: the returned spacing, or None
    calib_img,        \* mm_per_px_from_calibration: whether cv2.imread gave an image
    calib_pts,        \* mm_per_px_from_calibration: pts, None or <<p0, p1>>
    known_mm,         \* mm_per_px_from_calibration: known_mm, None or <<ratio>>
    mm_per_px,        \* main: mm_per_px, None until the calibration returned,
                      \* then <<float>>
    wavelength_nm,    \* main: wavelength_nm, None or <<ratio>>
    slit_to_screen_mm,\* main: slit_to_screen_mm, None or <<ratio>>
    spacing_mm,       \* main: spacing_mm of the image processed last, None or <<float>>
    slit_width_mm,    \* main: slit_width_mm of the image processed last, None or <<float>>
    optics_answers,   \* main: what ask_float answered to the two optics questions
    csv_rows,         \* main: rows, the CSV fields of every image processed
    height,           \* _resize_if_needed: image.shape[0]
    width,            \* _resize_if_needed: image.shape[1]
    max_dimension,    \* _resize_if_needed: max_dimension
    new_size,         \* _resize_if_needed: new_size handed to cv2.resize, else None
    resized           \* _resize_if_needed: the returned flag

bandVars == <<threshold_ratio, slit_width, smooth_profile, best_width>>
peakVars == <<peak_threshold, max_std_ratio, min_peaks, peaks, spacing>>
edgeVars == <<edge_profile, lag, spacing_px>>
calibVars == <<calib_img, calib_pts, known_mm, mm_per_px>>
batchVars == <<optics_answers, wavelength_nm, slit_to_screen_mm, spacing_mm,
              slit_width_mm, csv_rows>>
mainVars == <<calibVars, batchVars>>
resizeVars == <<height, width, max_dimension, new_size, resized>>
vars == <<pc, gray, bandVars, peakVars, edgeVars, mainVars, resizeVars>>

None == <<>>
Some(v) == <<v>>

\* ---------------------------------------------------------------- bounds
MaxWidth == 4
MaxProfileLen == 7
MaxGreyLen == 4
MaxGap == 6
MaxFlatLen == 12
MaxEdgeLen == 52
MaxPeriod == 26
MaxEdgeRows == 2

\* Grey levels of the generated one-row images, and of the two-row ones.
Levels == {0, 1, 2}
TwoRowLevels == {0, 2}

\* ---------------------------------------------------------------- helpers
RECURSIVE SumTo(_, _)
SumTo(f, n) == IF n = 0 THEN 0 ELSE f[n] + SumTo(f, n - 1)

SeqMax(s) == CHOOSE m \in {s[i] : i \in 1..Len(s)} : \A i \in 1..Len(s) : s[i] <= m

NumCols(g) == IF Len(g) = 0 THEN 0 ELSE Len(g[1])
Size(g) == Len(g) * NumCols(g)

\* The sum of every column: the add.reduce inside np.mean(gray, axis=0),
\* exact for sums below 2^24.
ColumnSum(g) == [j \in 1..NumCols(g) |-> SumTo([i \in 1..Len(g) |-> g[i][j]], Len(g))]

\* --------------------------------------------------- floating point
\* Naturals of any size: limbs below Base, the least significant first, the
\* last limb not 0; the empty sequence is 0.
Base == 32768
LimbBits == 15

RECURSIVE BigOf(_)
BigOf(n) == IF n = 0 THEN <<>> ELSE <<n % Base>> \o BigOf(n \div Base)

RECURSIVE BigToInt(_)
BigToInt(a) == IF a = <<>> THEN 0 ELSE a[1] + Base * BigToInt(Tail(a))

RECURSIVE BigTrim(_)
BigTrim(a) ==
    IF a = <<>> THEN a
    ELSE IF a[Len(a)] = 0 THEN BigTrim(SubSeq(a, 1, Len(a) - 1))
    ELSE a

Limb(a, i) == IF i <= Len(a) THEN a[i] ELSE 0

\* -1, 0 or 1 as a < b, a = b or a > b.
RECURSIVE BigCmpFrom(_, _, _)
BigCmpFrom(a, b, i) ==
    IF i = 0 THEN 0
    ELSE IF a[i] < b[i] THEN -1
    ELSE IF a[i] > b[i] THEN 1
    ELSE BigCmpFrom(a, b, i - 1)

BigCmp(a, b) ==
    IF Len(a) < Len(b) THEN -1
    ELSE IF Len(a) > Len(b) THEN 1
    ELSE BigCmpFrom(a, b, Len(a))

RECURSIVE BigAddFrom(_, _, _, _)
BigAddFrom(a, b, i, carry) ==
    IF i > Len(a) /\ i > Len(b)
    THEN (IF carry = 0 THEN <<>> ELSE <<carry>>)
    ELSE LET s == Limb(a, i) + Limb(b, i) + carry
         IN  <<s % Base>> \o BigAddFrom(a, b, i + 1, s \div Base)

BigAdd(a, b) == BigAddFrom(a, b, 1, 0)

\* a - b for a >= b.
RECURSIVE BigSubFrom(_, _, _, _)
BigSubFrom(a, b, i, borrow) ==
    IF i > Len(a) THEN <<>>
    ELSE LET d == a[i] - Limb(b, i) - borrow
         IN  IF d < 0 THEN <<d + Base>> \o BigSubFrom(a, b, i + 1, 1)
             ELSE <<d>> \o BigSubFrom(a, b, i + 1, 0)

BigSub(a, b) == IF b = <<>> THEN a ELSE BigTrim(BigSubFrom(a, b, 1, 0))

\* a * k for 0 <= k < Base.
RECURSIVE BigMulIntFrom(_, _, _, _)
BigMulIntFrom(a, k, i, carry) ==
    IF i > Len(a) THEN (IF carry = 0 THEN <<>> ELSE <<carry>>)
    ELSE LET s == a[i] * k + carry
         IN  <<s % Base>> \o BigMulIntFrom(a, k, i + 1, s \div Base)

BigMulInt(a, k) == IF k = 0 THEN <<>> ELSE BigMulIntFrom(a, k, 1, 0)

RECURSIVE BigMul(_, _)
BigMul(a, b) ==
    IF b = <<>> \/ a = <<>> THEN <<>>
    ELSE LET rest == BigMul(a, Tail(b))
         IN  BigAdd(BigMulInt(a, b[1]), IF rest = <<>> THEN <<>> ELSE <<0>> \o rest)

\* <<a div d, a mod d>> for 0 < d < Base.
RECURSIVE BigDivIntFrom(_, _, _, _)
BigDivIntFrom(a, d, i, rem) ==
    IF i = 0 THEN <<(<<>>), rem>>
    ELSE LET cur == rem * Base + a[i]
             low == BigDivIntFrom(a, d, i - 1, cur % d)
         IN  <<Append(low[1], cur \div d), low[2]>>

BigDivInt(a, d) ==
    LET Trimmed(res) == <<BigTrim(res[1]), res[2]>>
    IN  Trimmed(BigDivIntFrom(a, d, Len(a), 0))

RECURSIVE ZeroLimbs(_)
ZeroLimbs(n) == IF n = 0 THEN <<>> ELSE <<0>> \o ZeroLimbs(n - 1)

\* a * 2^n and a div 2^n.
BigShl(a, n) ==
    IF a = <<>> \/ n = 0 THEN a
    ELSE ZeroLimbs(n \div LimbBits) \o BigMulInt(a, 2 ^ (n % LimbBits))

BigShr(a, n) ==
    IF n \div LimbBits >= Len(a) THEN <<>>
    ELSE BigDivInt(SubSeq(a, n \div LimbBits + 1, Len(a)), 2 ^ (n % LimbBits))[1]

\* a mod 2^n.
BigLow(a, n) ==
    IF n \div LimbBits >= Len(a) THEN a
    ELSE BigTrim(SubSeq(a, 1, n \div LimbBits)
                 \o <<a[n \div LimbBits + 1] % (2 ^ (n % LimbBits))>>)

RECURSIVE IntBits(_)
IntBits(n) == IF n = 0 THEN 0 ELSE 1 + IntBits(n \div 2)

\* The number of binary digits of a.
BigBits(a) == IF a = <<>> THEN 0 ELSE (Len(a) - 1) * LimbBits + IntBits(a[Len(a)])

BigOdd(a) == a # <<>> /\ a[1] % 2 = 1

\* The largest q <= guess with b * q <= a.
RECURSIVE QuotientLimb(_, _, _)
QuotientLimb(a, b, guess) ==
    IF BigCmp(BigMulInt(b, guess), a) <= 0 THEN guess
    ELSE QuotientLimb(a, b, guess - 1)

\* <<a div b, a mod b>> for b of two limbs or more whose last limb is at
\* least Base / 2, one limb of the quotient at a time from the most
\* significant: the two leading limbs of what is left, divided by the
\* leading limb of b, are at most 2 above the limb of the quotient.
RECURSIVE BigDivModFrom(_, _, _, _)
BigDivModFrom(a, b, i, rem) ==
    IF i = 0 THEN <<(<<>>), rem>>
    ELSE LET cur == BigTrim(<<a[i]>> \o rem)
             top == Limb(cur, Len(b) + 1) * Base + Limb(cur, Len(b))
             guess == top \div b[Len(b)]
             Joined(low, q) == <<Append(low[1], q), low[2]>>
             Rest(q) == Joined(BigDivModFrom(a, b, i - 1, BigSub(cur, BigMulInt(b, q))), q)
         IN  Rest(IF BigCmp(cur, b) < 0 THEN 0
                  ELSE QuotientLimb(cur, b, IF guess < Base THEN guess ELSE Base - 1))

\* a and b doubled `scale` times and divided; the remainder is halved as
\* often.
BigDivModScaled(a, b, scale) ==
    LET Unscaled(res) == <<BigTrim(res[1]), BigShr(res[2], scale)>>
    IN  Unscaled(BigDivModFrom(BigShl(a, scale), BigShl(b, scale),
                               Len(BigShl(a, scale)), <<>>))

\* Both numbers are doubled until the last limb of b is at least Base / 2.
BigDivModLong(a, b) == BigDivModScaled(a, b, LimbBits - IntBits(b[Len(b)]))

BigDivMod(a, b) ==
    IF Len(b) = 1
    THEN LET AsBig(res) == <<res[1], BigOf(res[2])>> IN AsBig(BigDivInt(a, b[1]))
    ELSE BigDivModLong(a, b)

\* A finite float >= 0 is <<m, e>>, the value m * 2^e with m odd, or <<0, 0>>
\* for zero: equal values are equal pairs.
RECURSIVE TrailingZeros(_)
TrailingZeros(n) == IF n % 2 = 1 THEN 0 ELSE 1 + TrailingZeros(n \div 2)

RECURSIVE ZeroLimbCount(_, _)
ZeroLimbCount(a, i) == IF a[i] # 0 THEN 0 ELSE 1 + ZeroLimbCount(a, i + 1)

\* The number of binary digits 0 that m # 0 ends in.
TrailingZeroBits(m) ==
    ZeroLimbCount(m, 1) * LimbBits + TrailingZeros(m[ZeroLimbCount(m, 1) + 1])

Dyadic(m, e) ==
    IF m = <<>> THEN <<(<<>>), 0>>
    ELSE IF m[1] % 2 = 1 THEN <<m, e>>
    ELSE <<BigShr(m, TrailingZeroBits(m)), e + TrailingZeroBits(m)>>

FloatZero == <<(<<>>), 0>>

\* float(n) of a whole number n >= 0.
FloatOf(n) ==
    IF n = 0 THEN FloatZero
    ELSE IF n < Base THEN <<(<<n \div (2 ^ TrailingZeros(n))>>), TrailingZeros(n)>>
    ELSE Dyadic(BigOf(n), 0)

\* Whether the digits `kept` are rounded up, half_cmp comparing the digits
\* dropped with half a unit of the last digit kept: to nearest, ties to even.
RoundsUp(half_cmp, kept) == half_cmp > 0 \/ (half_cmp = 0 /\ BigOdd(kept))

\* m without its last `drop` binary digits, rounded.
Nearest(m, drop, kept) ==
    IF RoundsUp(BigCmp(BigLow(m, drop), BigShl(<<1>>, drop - 1)), kept)
    THEN BigAdd(kept, <<1>>) ELSE kept

\* m * 2^e with the last `drop` binary digits of m rounded off.
RoundOff(m, e, drop) == Dyadic(Nearest(m, drop, BigShr(m, drop)), e + drop)

\* m * 2^e rounded to the nearest float of p binary digits, ties to even.
RoundTo(m, e, p) ==
    IF Len(m) * LimbBits <= p \/ BigBits(m) <= p THEN Dyadic(m, e)
    ELSE RoundOff(m, e, BigBits(m) - p)

\* float32 and float64.
SingleBits == 24
DoubleBits == 53

\* x < y.  The position of the leading digit decides unless it is the same
\* in both.
FloatLess(x, y) ==
    IF x = y \/ y[1] = <<>> THEN FALSE
    ELSE IF x[1] = <<>> THEN TRUE
    ELSE IF x[2] = y[2] THEN BigCmp(x[1], y[1]) < 0
    ELSE IF BigBits(x[1]) + x[2] # BigBits(y[1]) + y[2]
    THEN BigBits(x[1]) + x[2] < BigBits(y[1]) + y[2]
    ELSE LET e == IF x[2] < y[2] THEN x[2] ELSE y[2]
         IN  BigCmp(BigShl(x[1], x[2] - e), BigShl(y[1], y[2] - e)) < 0

FloatAtLeast(x, y) == ~FloatLess(x, y)

FloatMul(x, y, p) ==
    IF x[1] = <<1>> THEN RoundTo(y[1], x[2] + y[2], p)
    ELSE IF y[1] = <<1>> THEN RoundTo(x[1], x[2] + y[2], p)
    ELSE RoundTo(BigMul(x[1], y[1]), x[2] + y[2], p)

\* x - y for x >= y.
FloatSub(x, y, p) ==
    IF x = y THEN FloatZero
    ELSE IF y[1] = <<>> THEN RoundTo(x[1], x[2], p)
    ELSE LET e == IF x[2] < y[2] THEN x[2] ELSE y[2]
         IN  RoundTo(BigSub(BigShl(x[1], x[2] - e), BigShl(y[1], y[2] - e)), e, p)

\* x + y.
FloatAdd(x, y, p) ==
    IF x[1] = <<>> THEN RoundTo(y[1], y[2], p)
    ELSE IF y[1] = <<>> THEN RoundTo(x[1], x[2], p)
    ELSE LET e == IF x[2] < y[2] THEN x[2] ELSE y[2]
         IN  RoundTo(BigAdd(BigShl(x[1], x[2] - e), BigShl(y[1], y[2] - e)), e, p)

\* |x - y|.
FloatDist(x, y, p) == IF FloatLess(x, y) THEN FloatSub(y, x, p) ELSE FloatSub(x, y, p)

\* The whole part of the square root of a, by Newton's iteration from above.
RECURSIVE BigSqrtFrom(_, _)
BigSqrtFrom(a, x) ==
    LET Next_(y) == IF BigCmp(y, x) >= 0 THEN x ELSE BigSqrtFrom(a, y)
    IN  Next_(BigShr(BigAdd(x, BigDivMod(a, x)[1]), 1))

\* The whole part of the square root of n < Base * Base.
RECURSIVE IntSqrtFrom(_, _)
IntSqrtFrom(n, x) ==
    LET y == (x + n \div x) \div 2
    IN  IF y >= x THEN x ELSE IntSqrtFrom(n, y)

IntSqrt(n) == IF n = 0 THEN 0 ELSE IntSqrtFrom(n, Base)

\* The iteration starts from the root of the two leading limbs, rounded up.
BigSqrt(a) ==
    IF Len(a) <= 2 THEN BigOf(IntSqrt(BigToInt(a)))
    ELSE LET rest == (Len(a) - 2) * LimbBits
             top == a[Len(a)] * Base + a[Len(a) - 1]
         IN  BigSqrtFrom(a, IF rest % 2 = 0
                            THEN BigShl(BigOf(IntSqrt(top) + 1), rest \div 2)
                            ELSE BigShl(BigOf(IntSqrt(top \div 2) + 1), (rest + 1) \div 2))

\* Twice the root of the radicand and a last digit 1 when the root is not
\* exact.
TwiceRoot(radicand, root) ==
    BigAdd(BigAdd(root, root), IF BigMul(root, root) = radicand THEN <<>> ELSE <<1>>)

\* sqrt(x): the root to p + 2 digits and a digit that tells whether anything
\* is left, rounded.
FloatSqrt(x, p) ==
    IF x[1] = <<>> THEN FloatZero
    ELSE LET least == IF 2 * (p + 2) > BigBits(x[1]) THEN 2 * (p + 2) - BigBits(x[1]) ELSE 0
             shift == IF (x[2] - least) % 2 = 0 THEN least ELSE least + 1
         IN  RoundTo(TwiceRoot(BigShl(x[1], shift), BigSqrt(BigShl(x[1], shift))),
                     (x[2] - shift) \div 2 - 1, p)

\* Twice the quotient of qr == <<quotient, remainder>> and a last digit 1
\* when the remainder is not 0.
TwiceQuotient(qr) == BigAdd(BigAdd(qr[1], qr[1]), IF qr[2] = <<>> THEN <<>> ELSE <<1>>)

\* x / y for y > 0: the quotient to p + 2 digits and a digit that tells
\* whether anything is left, rounded.
FloatDiv(x, y, p) ==
    IF x[1] = <<>> THEN FloatZero
    ELSE IF x = y THEN <<(<<1>>), 0>>
    ELSE IF y[1] = <<1>> THEN RoundTo(x[1], x[2] - y[2], p)
    ELSE LET least == p + 2 + BigBits(y[1]) - BigBits(x[1])
             shift == IF least > 0 THEN least ELSE 0
         IN  RoundTo(TwiceQuotient(BigDivMod(BigShl(x[1], shift), y[1])),
                     x[2] - y[2] - shift - 1, p)

\* float(num / den) of two whole numbers, num >= 0 and den > 0.
FloatOfRatio(num, den, p) == FloatDiv(FloatOf(num), FloatOf(den), p)

\* int(x): the whole part.
Truncated(x) ==
    IF x[2] >= 0 THEN BigToInt(BigShl(x[1], x[2]))
    ELSE BigToInt(BigShr(x[1], -x[2]))

\* x * units rounded to the nearest whole number, ties to even: the digits
\* that f"{x:.6f}" prints for units = 10^6.
NearestWhole(x, units) ==
    LET m == BigMul(x[1], BigOf(units))
    IN  IF x[2] >= 0 THEN BigToInt(BigShl(m, x[2]))
        ELSE BigToInt(Nearest(m, -x[2], BigShr(m, -x[2])))

\* float(s) of a decimal s >= 0, given as the ratio it denotes.
AsFloat(r) == FloatOfRatio(r[1], r[2], DoubleBits)

\* A float64 handed to a float32 comparison.
ToSingle(x) == RoundTo(x[1], x[2], SingleBits)

RECURSIVE FloatMaxFrom(_, _, _)
FloatMaxFrom(s, j, best) ==
    IF j > Len(s) THEN best
    ELSE FloatMaxFrom(s, j + 1, IF FloatLess(best, s[j]) THEN s[j] ELSE best)

RECURSIVE FloatMinFrom(_, _, _)
FloatMinFrom(s, j, best) ==
    IF j > Len(s) THEN best
    ELSE FloatMinFrom(s, j + 1, IF FloatLess(s[j], best) THEN s[j] ELSE best)

\* np.max and np.min of a non-empty profile.
FloatMax(s) == FloatMaxFrom(s, 2, s[1])
FloatMin(s) == FloatMinFrom(s, 2, s[1])

\* np.mean(gray, axis=0) in floats of p digits: every column sum divided by
\* the number of rows.
ColumnMean(g, p) ==
    LET sums == ColumnSum(g)
        count == FloatOf(Len(g))
    IN  [j \in 1..NumCols(g) |-> FloatDiv(FloatOf(sums[j]), count, p)]

\* ------------------------------------------- band width (backend/app.py)
\* Faulty variants: the comparison turned round, and made strict.
AtLeastRatio_Inverted(val, max_val, ratio) ==
    FloatAtLeast(ToSingle(FloatMul(max_val, AsFloat(ratio), DoubleBits)), val)
AtLeastRatio_Strict(val, max_val, ratio) ==
    FloatLess(ToSingle(FloatMul(max_val, AsFloat(ratio), DoubleBits)), val)

\* `max_val * threshold_ratio`, a product of two Python floats.
Threshold(max_val, ratio) == FloatMul(max_val, AsFloat(ratio), DoubleBits)

\* One sample of `profile >= (max_val * threshold_ratio)`: the float32
\* sample against the threshold, which NumPy makes a float32 for the
\* comparison.
AtLeastRatio(val, max_val, ratio) ==
    FloatAtLeast(val, ToSingle(Threshold(max_val, ratio)))

Mask(profile, max_val, ratio) ==
    [j \in 1..Len(profile) |-> AtLeastRatio(profile[j], max_val, ratio)]

\* Faulty variant: current_run is never reset on a sample below the threshold.
RECURSIVE RunScan_NoReset(_, _, _, _)
RunScan_NoReset(mask, j, current_run, max_run) ==
    IF j > Len(mask) THEN max_run
    ELSE IF mask[j]
         THEN RunScan_NoReset(mask, j + 1, current_run + 1,
                      IF current_run + 1 > max_run THEN current_run + 1 ELSE max_run)
         ELSE RunScan_NoReset(mask, j + 1, current_run, max_run)

\* The scan `for flag in mask`, from index j with the two counters.
RECURSIVE RunScan(_, _, _, _)
RunScan(mask, j, current_run, max_run) ==
    IF j > Len(mask) THEN max_run
    ELSE IF mask[j]
         THEN RunScan(mask, j + 1, current_run + 1,
                      IF current_run + 1 > max_run THEN current_run + 1 ELSE max_run)
         ELSE RunScan(mask, j + 1, 0, max_run)

EstimateSlitWidth(g, ratio) ==
    IF Size(g) = 0 THEN None
    ELSE LET profile == ColumnMean(g, SingleBits)
             max_val == FloatMax(profile)
         IN  IF ~FloatLess(FloatZero, max_val) THEN None
             ELSE LET mask == Mask(profile, max_val, ratio)
                  IN  IF ~(\E j \in 1..Len(mask) : mask[j]) THEN None
                      ELSE LET max_run == RunScan(mask, 1, 0, 0)
                           IN  IF max_run > 0 THEN Some(max_run) ELSE None

\* ------------------- band width (diffraction_capture/backend/app.py)
\* The fixed threshold `max_value * 0.5`.
HalfMax == <<1, 2>>

\* Lines 61-80, from smooth_profile on: the grey conversion, the blurs and
\* the min-max normalisation of lines 53-60 are OpenCV's and are outside the
\* model, which starts from their result.  A raised ValueError is None.
EstimateSlitWidthSmooth(profile) ==
    LET max_value == FloatMax(profile)
    IN  IF ~FloatLess(FloatZero, max_value) THEN None
        ELSE LET above == Mask(profile, max_value, HalfMax)
                 best == RunScan(above, 1, 0, 0)
             IN  IF best = 0 THEN None ELSE Some(best)

\* ------------------------------------- peak spacing (fringe_eval.py)
\* DEFAULT_PEAK_THRESHOLD, DEFAULT_MAX_STD_RATIO, DEFAULT_MIN_PEAKS.
DefaultPeakThreshold == <<7, 20>>
DefaultMaxStdRatio == <<1, 5>>
DefaultMinPeaks == 3

\* profile - np.min(profile).
LessMin(profile) ==
    LET Less(lowest) == [j \in 1..Len(profile) |-> FloatSub(profile[j], lowest, DoubleBits)]
    IN  Less(FloatMin(profile))

\* profile / max_val when max_val == np.max(profile) > 0, else profile.
OverMax(profile) ==
    LET Over(max_val) ==
            IF FloatLess(FloatZero, max_val)
            THEN [j \in 1..Len(profile) |-> FloatDiv(profile[j], max_val, DoubleBits)]
            ELSE profile
    IN  Over(FloatMax(profile))

\* Lines 37-38: the float64 column means less their minimum.
Shifted(g) == LessMin(ColumnMean(g, DoubleBits))

\* Lines 39-41: divided by max_val when it is > 0.
Normalised(g) == OverMax(Shifted(g))

\* max(0.0, min(1.0, peak_threshold)), a float.
ClampThreshold(t) ==
    IF t[1] > t[2] THEN FloatOf(1)
    ELSE IF t[1] < 0 THEN FloatZero
    ELSE AsFloat(t)

\* Faulty variant: the threshold is not tested.
IsLocalPeak_NoThreshold(profile, threshold, i) ==
    /\ FloatAtLeast(profile[i + 1], profile[i])
    /\ FloatAtLeast(profile[i + 1], profile[i + 2])

\* The test of line 47 at 0-based column i; profile is 1-based.
IsLocalPeak(profile, threshold, i) ==
    /\ FloatAtLeast(profile[i + 1], profile[i])
    /\ FloatAtLeast(profile[i + 1], profile[i + 2])
    /\ FloatAtLeast(profile[i + 1], threshold)

\* Faulty variant: a peak is accepted from 4 columns on.
FarEnough_Wider(found, i) == found = <<>> \/ i - found[Len(found)] > 3
\* Faulty variant: any later column may follow a peak.
FarEnough_Closer(found, i) == found = <<>> \/ i - found[Len(found)] > 0

\* The gap rule of line 48.
FarEnough(found, i) == found = <<>> \/ i - found[Len(found)] > 2

\* The loop `for i in range(1, len(profile) - 1)` from column i on.
RECURSIVE ScanPeaks(_, _, _, _)
ScanPeaks(profile, threshold, i, found) ==
    IF i > Len(profile) - 2 THEN found
    ELSE IF IsLocalPeak(profile, threshold, i) /\ FarEnough(found, i)
         THEN ScanPeaks(profile, threshold, i + 1, Append(found, i))
         ELSE ScanPeaks(profile, threshold, i + 1, found)

\* In place of a peak list when find_fringe_spacing raises ValueError: no
\* column is negative.
ValueError == <<-1>>

\* Lines 37-49: the list peaks.  On an image without columns np.min of
\* line 38 raises (a zero-size array has no minimum).
DetectPeaks(g, t) ==
    IF NumCols(g) = 0 THEN ValueError
    ELSE ScanPeaks(Normalised(g), ClampThreshold(t), 1, <<>>)

\* Line 51: the consecutive differences that are > 1.
Spacings(found) ==
    LET diffs == [i \in 1..(Len(found) - 1) |-> found[i + 1] - found[i]]
        Keep(d) == d > 1
    IN  IF Len(found) < 2 THEN <<>> ELSE SelectSeq(diffs, Keep)

SumSeq(s) == SumTo(s, Len(s))

\* res += a[i] for i = from, from + step, .. up to `to`, in that order: the
\* sum in order (step 1) and one of the eight running sums r[j] += a[i + j]
\* for i = 8, 16, .. (step 8).
RECURSIVE AddUp(_, _, _, _, _)
AddUp(a, from, to, step, res) ==
    IF from > to THEN res
    ELSE AddUp(a, from + step, to, step, FloatAdd(res, a[from], DoubleBits))

\* The sums of the neighbouring pairs of r: r[1] + r[2], r[3] + r[4], ...
PairsAdded(r) == [j \in 1..(Len(r) \div 2) |-> FloatAdd(r[2 * j - 1], r[2 * j], DoubleBits)]

\* The sum np.add.reduce makes of a float64 array: in order below 8 values,
\* in eight running sums up to 128 values, and in two halves above.
RECURSIVE PairwiseSum(_)
PairwiseSum(a) ==
    LET n == Len(a)
    IN  IF n < 8 THEN AddUp(a, 1, n, 1, FloatZero)
        ELSE IF n <= 128
        THEN AddUp(a, n - (n % 8) + 1, n, 1,
                   PairsAdded(PairsAdded(PairsAdded(
                       [j \in 1..8 |-> AddUp(a, j + 8, n - (n % 8), 8, a[j])])))[1])
        ELSE LET n2 == (n \div 2) - ((n \div 2) % 8)
             IN  FloatAdd(PairwiseSum(SubSeq(a, 1, n2)),
                          PairwiseSum(SubSeq(a, n2 + 1, n)), DoubleBits)

\* np.mean(spacings): the sum, exact in whole numbers, over the count.
Mean(sp) == FloatDiv(FloatOf(SumSeq(sp)), FloatOf(Len(sp)), DoubleBits)

\* abs(x - mean) ** 2 for each spacing x, in float64.
SquaredDistances(sp, mean) ==
    [i \in 1..Len(sp) |->
        LET Square(x) == FloatMul(x, x, DoubleBits)
        IN  Square(FloatDist(FloatOf(sp[i]), mean, DoubleBits))]

\* The root of the sum of the squared distances from the mean over `count`.
StdOver(sp, count) ==
    FloatSqrt(FloatDiv(PairwiseSum(SquaredDistances(sp, Mean(sp))), FloatOf(count),
                       DoubleBits), DoubleBits)

\* Faulty variant: the sample standard deviation (divisor m - 1).
Std_Sample(sp) == StdOver(sp, Len(sp) - 1)

\* np.std(spacings): the population standard deviation.
Std(sp) == StdOver(sp, Len(sp))

\* Lines 55-56 and the quotient of line 57: <<avg, std / avg>> of two
\* spacings or more, which are all > 1.
SpacingStats(sp) ==
    IF Len(sp) < 2 THEN None
    ELSE <<Mean(sp), FloatDiv(Std(sp), Mean(sp), DoubleBits)>>

\* (std / avg) > max_std_ratio, for the quotient `spread`.
TooIrregular(spread, r) == r[1] < 0 \/ FloatLess(AsFloat(r), spread)

\* Lines 52-60 for the statistics `stats` of the spacings of `found`.
AcceptWith(found, stats, r, k) ==
    IF stats = None \/ Len(found) < k THEN None
    ELSE IF ~FloatLess(FloatZero, stats[1]) \/ TooIrregular(stats[2], r) THEN None
    ELSE Some(stats[1])

\* Lines 51-60: the spacing returned for the peak list `found`.
AcceptSpacing(found, r, k) == AcceptWith(found, SpacingStats(Spacings(found)), r, k)

\* Faulty variant: a rejected spacing comes with an empty peak list.
ReturnedPeaks_EmptyOnReject(found, sp) == IF sp = None THEN <<>> ELSE found

\* The peak list returned next to the spacing (lines 53, 58, 60).
ReturnedPeaks(found, sp) == found

\* --------------------------- autocorrelation spacing (measure_fringes.py)
\* `profile.size < 50`
MinProfileSize == 50

\* Faulty variant: profiles from 10 columns on are measured.
TooShort_Ten(p) == Len(p) < 10

TooShort(p) == Len(p) < MinProfileSize
\* `max(5, ...)`
LeastLag == 5
\* The value of an edge pixel of the Canny map.
EdgePixel == 255

\* profile - profile.mean() in float32.  The mean is the float32 sum, exact
\* below 2^24, divided by the count in float64 and rounded to float32.  A
\* sample is <<below, d>>: its distance d from 0 and whether it is below 0.
Centred(p) ==
    LET mean == ToSingle(FloatDiv(FloatOf(EdgePixel * SumTo(p, Len(p))),
                                  FloatOf(Len(p)), DoubleBits))
        sample == [v \in {p[i] : i \in 1..Len(p)} |->
                     <<FloatLess(FloatOf(EdgePixel * v), mean),
                       FloatDist(FloatOf(EdgePixel * v), mean, SingleBits)>>]
    IN  [i \in 1..Len(p) |-> sample[p[i]]]

\* np.allclose(profile, 0) on the centred profile: |sample| <= atol + rtol * 0
\* with the default atol of 1e-8.
AllClose0(c) ==
    \A x \in {c[i] : i \in 1..Len(c)} : FloatAtLeast(AsFloat(<<1, 100000000>>), x[2])

\* The samples of c are whole multiples of 2^LeastExponent(c).
LeastExponent(c) ==
    LET exponents == {c[i][2][2] : i \in 1..Len(c)}
    IN  CHOOSE e \in exponents : \A f \in exponents : e <= f

\* The sum of f over S.
RECURSIVE BigSum(_, _)
BigSum(S, f) ==
    IF S = {} THEN <<>>
    ELSE CHOOSE sum \in {BigAdd(f[x], BigSum(S \ {x}, f)) : x \in {CHOOSE y \in S : TRUE}} : TRUE

\* The autocorrelation of the centred profile c at lag k, which the padded
\* FFT product of lines 219-221 computes but for its rounding: the sum of
\* c[i] * c[i + k], exact, in units of 4^LeastExponent(c).  The sum is
\* taken over the pairs of values, each product as often as it occurs, and
\* is <<pos, neg>>: the products above 0 and the products below 0.
AutoCorr(c, k) ==
    CHOOSE sum \in
        {<<BigSum({pr \in DOMAIN term : pr[1][1] = pr[2][1]}, term),
           BigSum({pr \in DOMAIN term : pr[1][1] # pr[2][1]}, term)>> :
            term \in UNION {
                {[pr \in values \X values |->
                    BigMulInt(BigMul(BigShl(pr[1][2][1], pr[1][2][2] - e),
                                     BigShl(pr[2][2][1], pr[2][2][2] - e)),
                              Cardinality({i \in 1..(Len(c) - k) :
                                              c[i] = pr[1] /\ c[i + k] = pr[2]}))]
                 : values \in {{c[i] : i \in 1..Len(c)}}}
                : e \in {LeastExponent(c)}}} : TRUE

\* The digits a float64 FFT (np.fft of NumPy before 2.0 computes in float64
\* whatever the input) keeps of the autocorrelation: a computed value lies
\* within ac[0] / 2^FftDigits of the exact sum.
FftDigits == 44

\* x <= y + n * ac[0] / 2^FftDigits for two sums x, y and the sum at lag 0.
AtMostWithin(x, y, n, energy) ==
    BigCmp(BigShl(BigAdd(x[1], y[2]), FftDigits),
           BigAdd(BigShl(BigAdd(y[1], x[2]), FftDigits), BigMulInt(energy[1], n))) <= 0

\* max(5, int(len(profile) * 0.01)) and min(len(profile) - 1, int(len(profile) * 0.5))
MinLag(n) == IF n \div 100 > LeastLag THEN n \div 100 ELSE LeastLag
MaxLag(n) == IF n \div 2 < n - 1 THEN n \div 2 ELSE n - 1

\* The lags of the slice ac[min_lag:max_lag].
SegmentLags(min_lag, max_lag) == min_lag..(max_lag - 1)

\* ac[min_lag:max_lag] as exact sums, a function of the lag.
Segment(c, min_lag, max_lag) ==
    [k \in SegmentLags(min_lag, max_lag) |-> AutoCorr(c, k)]

\* np.argmax(segment) + min_lag: the lag of the greatest computed value.  It
\* is a lag whose exact sum is the greatest or so little below the greatest
\* that the rounding of the FFT decides, as it does between equal sums.
ArgMaxLag(segment, min_lag, max_lag, energy) ==
    {k \in SegmentLags(min_lag, max_lag) :
        \A j \in SegmentLags(min_lag, max_lag) :
            AtMostWithin(segment[j], segment[k], 2, energy)}

\* ac[lag] <= 0 can be the case, and ac[lag] > 0 can be the case: the sum is
\* compared with 0, a pair of empty sums.
MaybeNotPositive(sum, energy) == AtMostWithin(sum, <<(<<>>), (<<>>)>>, 1, energy)
MaybePositive(sum, energy) == AtMostWithin(<<(<<>>), (<<>>)>>, sum, 1, energy)

\* Lines 211-235: the pairs <<lag, spacing>>, each None or <<value>>, that
\* the function can return for the edge counts p.
EstimateFringeSpacingPx(p) ==
    IF TooShort(p) THEN {<<None, None>>}
    ELSE IF SeqMax(p) <= 0 THEN {<<None, None>>}
    ELSE UNION {
        IF AllClose0(c) THEN {<<None, None>>}
        ELSE IF MaxLag(Len(p)) <= MinLag(Len(p)) + 2 THEN {<<None, None>>}
        ELSE UNION {UNION {
                {<<Some(k), None>> :
                    k \in {l \in lags : MaybeNotPositive(segment[l], energy)}}
                \cup
                {<<Some(k), Some(k)>> :
                    k \in {l \in lags : MaybePositive(segment[l], energy)}}
                : lags \in {ArgMaxLag(segment, MinLag(Len(p)), MaxLag(Len(p)), energy)}}
             : segment \in {Segment(c, MinLag(Len(p)), MaxLag(Len(p)))},
               energy \in {AutoCorr(c, 0)}}
        : c \in {Centred(p)}}

\* ------------------------------------------------------------- inputs
RECURSIVE SeqsOfLen(_, _)
SeqsOfLen(S, n) ==
    IF n = 0 THEN {<<>>}
    ELSE {Append(s, x) : s \in SeqsOfLen(S, n - 1), x \in S}

Images ==
    UNION {{<<row>> : row \in SeqsOfLen(Levels, w)} \cup
           {<<r1, r2>> : r1 \in SeqsOfLen(TwoRowLevels, w), r2 \in SeqsOfLen(TwoRowLevels, w)}
           : w \in 0..MaxWidth}

\* An image of `count` rows whose column j holds `level` in its first sums[j]
\* rows and 0 below.
Stack(count, sums, level) ==
    [i \in 1..count |-> [j \in 1..Len(sums) |-> IF i <= sums[j] THEN level ELSE 0]]

\* Images of 3 and of 7 rows: their column means are rounded.
OddRowCounts == {3, 7}
OddRowImages ==
    {Stack(count, sums, level) :
        count \in OddRowCounts, sums \in SeqsOfLen({0, 3, 4}, 2), level \in {1, 2}}

\* Smoothed profiles of normalised frames: float32 values in [0, 1].
MaxSmoothLen == 4
SmoothLevels == {FloatZero, Dyadic(<<1>>, -2), Dyadic(<<1>>, -1), FloatOf(1)}
SmoothProfiles == UNION {SeqsOfLen(SmoothLevels, n) : n \in 1..MaxSmoothLen}

\* Threshold ratios in (0, 1]; 3/5 is the default of backend/app.py.
Ratios == {<<1, 4>>, <<1, 2>>, <<3, 5>>, <<3, 4>>, <<1, 1>>}

\* One-row images for find_fringe_spacing: every two-level profile up to
\* MaxProfileLen columns and every three-level profile up to MaxGreyLen.
PeakImages ==
    {<<row>> : row \in UNION {SeqsOfLen(TwoRowLevels, w) : w \in 0..MaxProfileLen}} \cup
    {<<row>> : row \in UNION {SeqsOfLen(Levels, w) : w \in 0..MaxGreyLen}}

\* Images of 5 rows with two zero columns at either end and column sums of
\* 0, 3 and 4 between: the means 3/5 and 4/5 are rounded.
RoundedPeakImages ==
    {Stack(5, <<0>> \o sums \o <<0>>, 1) : sums \in SeqsOfLen({0, 3, 4}, 4)}

\* A train of unit peaks on zeros: `lead` zero columns, a peak, and after
\* each gap of gaps another peak, then `tail` zero columns.  Equal gaps make
\* a comb.
RECURSIVE PeakColumns(_, _)
PeakColumns(first, gaps) ==
    IF gaps = <<>> THEN {first}
    ELSE {first} \cup PeakColumns(first + Head(gaps), Tail(gaps))

Train(lead, gaps, tail) ==
    [j \in 1..(lead + 1 + SumTo(gaps, Len(gaps)) + tail) |->
        IF j \in PeakColumns(lead + 1, gaps) THEN 1 ELSE 0]

Margins == {0, 1}

\* Three peaks with and without a zero column at either end, and four peaks
\* between two zero columns.
TrainImages ==
    {<<Train(lead, gaps, tail)>> :
        gaps \in SeqsOfLen(1..MaxGap, 2), lead \in Margins, tail \in Margins} \cup
    {<<Train(1, gaps, 1)>> : gaps \in SeqsOfLen(1..MaxGap, 3)}

\* Trains whose std / mean is 1/2 in exact arithmetic: the float quotient is
\* above 1/2 for the first and 1/2 for the second, its spacings reversed.
TiedTrains ==
    {<<Train(1, <<3, 3, 4, 9, 9>>, 1)>>, <<Train(1, <<9, 9, 4, 3, 3>>, 1)>>}

\* Constant profiles, long enough for several peaks 3 apart.
FlatImages ==
    {<<[j \in 1..w |-> c]>> : w \in 1..MaxFlatLen, c \in Levels}

\* Below 0, 0, the default 0.35, 0.75 and above 1.
PeakThresholds == {<<-1, 2>>, <<0, 1>>, <<7, 20>>, <<3, 4>>, <<3, 2>>}
StdRatios == {<<0, 1>>, <<1, 5>>, <<1, 2>>}
MinPeakCounts == {3, 4}

\* ------------------------------------------------------------- band spec
\* Neither estimator has run.
BandReady ==
    /\ threshold_ratio = <<3, 5>>
    /\ slit_width = None
    /\ best_width = None

BandIdle ==
    /\ BandReady
    /\ smooth_profile = <<>>

EdgeIdle ==
    /\ edge_profile = <<>>
    /\ lag = None
    /\ spacing_px = None

PeakIdle ==
    /\ peak_threshold = DefaultPeakThreshold
    /\ max_std_ratio = DefaultMaxStdRatio
    /\ min_peaks = DefaultMinPeaks
    /\ peaks = <<>>
    /\ spacing = None

\* main of measure_fringes.py has not started.
MainIdle ==
    /\ calib_img = FALSE
    /\ calib_pts = None
    /\ known_mm = None
    /\ mm_per_px = None
    /\ wavelength_nm = None
    /\ slit_to_screen_mm = None
    /\ optics_answers = None
    /\ spacing_mm = None
    /\ slit_width_mm = None
    /\ csv_rows = <<>>

ResizeIdle ==
    /\ height = 1
    /\ width = 1
    /\ max_dimension = 0
    /\ new_size = None
    /\ resized = FALSE

\* Either an image decoded for backend/app.py, or a frame of
\* diffraction_capture/backend/app.py brought to its smoothed profile
\* (line 60).
Init ==
    /\ pc = "ready"
    /\ \/ gray \in Images \cup OddRowImages /\ smooth_profile = <<>>
       \/ gray = <<>> /\ smooth_profile \in SmoothProfiles
    /\ BandReady
    /\ PeakIdle
    /\ EdgeIdle
    /\ MainIdle
    /\ ResizeIdle

Analyze ==
    /\ pc = "ready"
    /\ smooth_profile = <<>>
    /\ \E ratio \in Ratios :
        /\ threshold_ratio' = ratio
        /\ slit_width' = EstimateSlitWidth(gray, ratio)
    /\ pc' = "done"
    /\ UNCHANGED <<gray, smooth_profile, best_width, peakVars, edgeVars, mainVars,
                   resizeVars>>

\* The variant of diffraction_capture/backend/app.py, from line 61 on.
AnalyzeFrame ==
    /\ pc = "ready"
    /\ smooth_profile # <<>>
    /\ best_width' = EstimateSlitWidthSmooth(smooth_profile)
    /\ pc' = "frame_done"
    /\ UNCHANGED <<gray, threshold_ratio, slit_width, smooth_profile, peakVars,
                   edgeVars, mainVars, resizeVars>>

Next == Analyze \/ AnalyzeFrame

Spec == Init /\ [][Next]_vars

\* ------------------------------------------------------ peak-spacing spec
InitPeaks ==
    /\ pc = "ready"
    /\ gray \in PeakImages \cup TrainImages \cup TiedTrains \cup FlatImages
                \cup RoundedPeakImages
    /\ BandIdle
    /\ PeakIdle
    /\ EdgeIdle
    /\ MainIdle
    /\ ResizeIdle

\* find_fringe_spacing(gray, t, r, k) from line 51 on, `found` being the list
\* peaks of lines 44-49 and `stats` the statistics of its spacings: both
\* returned values.
Measure(t, r, k, found, stats) ==
    \E sp \in {AcceptWith(found, stats, r, k)} :
        /\ peak_threshold' = t
        /\ max_std_ratio' = r
        /\ min_peaks' = k
        /\ spacing' = sp
        /\ peaks' = ReturnedPeaks(found, sp)

\* One call; when it raises nothing is returned.
FindFringeSpacing ==
    /\ pc = "ready"
    /\ \E t \in PeakThresholds :
         \E found \in {DetectPeaks(gray, t)} :
            IF found = ValueError
            THEN pc' = "raised" /\ UNCHANGED peakVars
            ELSE /\ pc' = "done"
                 /\ \E stats \in {SpacingStats(Spacings(found))} :
                      \E r \in StdRatios, k \in MinPeakCounts :
                         Measure(t, r, k, found, stats)
    /\ UNCHANGED <<gray, bandVars, edgeVars, mainVars, resizeVars>>

\* The same image and threshold measured again with another min_peaks and
\* max_std_ratio (server/app.py takes them per request).
Remeasure ==
    /\ pc = "done"
    /\ \E found \in {DetectPeaks(gray, peak_threshold)} :
         IF found = ValueError
         THEN pc' = "raised" /\ UNCHANGED peakVars
         ELSE /\ pc' = "again"
              /\ \E stats \in {SpacingStats(Spacings(found))} :
                   \E r \in StdRatios, k \in MinPeakCounts :
                      Measure(peak_threshold, r, k, found, stats)
    /\ UNCHANGED <<gray, bandVars, edgeVars, mainVars, resizeVars>>

NextPeaks == FindFringeSpacing \/ Remeasure

SpecPeaks == InitPeaks /\ [][NextPeaks]_vars

\* ------------------------------------------------------ band-width claims
Abs(x) == IF x < 0 THEN -x ELSE x

\* Every row of g is B on the W columns from `start` on and 0 elsewhere.
IsBandImage(g, start, W, B) ==
    /\ Len(g) >= 1
    /\ W >= 1 /\ start >= 1 /\ start + W - 1 <= NumCols(g)
    /\ \A i \in 1..Len(g) : \A j \in 1..NumCols(g) :
          g[i][j] = (IF j >= start /\ j < start + W THEN B ELSE 0)

\* C1: on an image that is one contiguous bright band (a single brightness, as
\* in the repository's test) of width W on a zero background, and for a ratio
\* strictly below 1, the estimator returns a number within 1 of W.
C1_BandWidthWithinOne ==
    (pc = "done" /\ threshold_ratio[1] < threshold_ratio[2]) =>
        \A W \in 1..NumCols(gray), start \in 1..NumCols(gray), B \in Levels \ {0} :
            IsBandImage(gray, start, W, B) =>
                /\ slit_width # None
                /\ Abs(slit_width[1] - W) <= 1

C1_Witness ==
    /\ pc = "done"
    /\ threshold_ratio = <<3, 5>>
    /\ Len(gray) = 2
    /\ IsBandImage(gray, 2, 2, 2)
    /\ NumCols(gray) = 4
    /\ slit_width = Some(2)

\* The samples of a float32 profile that are >= max * ratio, the product
\* being the float the code computes.
AtOrAbove(profile, ratio) ==
    LET limit == ToSingle(FloatMul(FloatMax(profile), AsFloat(ratio), DoubleBits))
    IN  {j \in 1..Len(profile) : FloatAtLeast(profile[j], limit)}

\* The lengths of the runs of consecutive columns within `above`.
RunLengths(above, len) ==
    {n \in 1..len : \E a \in 1..(len - n + 1) : \A j \in a..(a + n - 1) : j \in above}

LongestRun(above, len) ==
    IF RunLengths(above, len) = {} THEN 0
    ELSE CHOOSE n \in RunLengths(above, len) :
             \A m \in RunLengths(above, len) : m <= n

\* The width claimed for a profile: None for a maximum <= 0, else the length
\* of the longest run of samples >= max * ratio.
ClaimedWidth(profile, ratio) ==
    IF FloatMax(profile) = FloatZero THEN None
    ELSE Some(LongestRun(AtOrAbove(profile, ratio), Len(profile)))

\* C2: on a non-empty profile the estimator returns None when the maximum is
\* <= 0 and otherwise exactly the length of the longest run of samples that
\* are >= max * ratio; it never returns the number 0.  Both variants, the
\* second from its smoothed profile on with the ratio 1/2.
C2_LongestRunOrNone ==
    /\ (pc = "done" /\ Size(gray) > 0) =>
          /\ slit_width = ClaimedWidth(ColumnMean(gray, SingleBits), threshold_ratio)
          /\ slit_width # Some(0)
    /\ pc = "frame_done" =>
          /\ best_width = ClaimedWidth(smooth_profile, HalfMax)
          /\ best_width # Some(0)

\* Two separate runs, the longer one second, with a dip between them.
C2_Witness ==
    /\ pc = "done"
    /\ gray = <<(<<2, 0, 2, 2>>)>>
    /\ threshold_ratio = <<3, 4>>
    /\ slit_width = Some(2)

IsConstant(profile) == \A j \in 1..Len(profile) : profile[j] = profile[1]

\* C3 as claimed: every all-zero or constant profile gives None.
C3_ConstantIsUndetermined ==
    (pc = "done" /\ Size(gray) > 0 /\ IsConstant(ColumnSum(gray))) =>
        slit_width = None

\* C3 amended: an all-zero profile gives None; a constant profile of a
\* positive value gives the number of columns, for every ratio in (0, 1].
C3_ConstantGivesFullWidth ==
    (pc = "done" /\ Size(gray) > 0 /\ IsConstant(ColumnSum(gray))) =>
        IF ColumnSum(gray)[1] <= 0
        THEN slit_width = None
        ELSE slit_width = Some(NumCols(gray))

C3_Witness ==
    /\ pc = "done"
    /\ gray = <<(<<2, 0, 2>>), (<<0, 2, 0>>)>>
    /\ threshold_ratio = <<1, 1>>
    /\ slit_width = Some(3)


\* --------------------------------------------------- autocorrelation spec
\* Edge profiles: `rows` edge pixels in every column that is a multiple of
\* `period` past `first`, none elsewhere; period 1 is a constant profile.
EdgeTrain(n, period, first, rows) ==
    [j \in 1..n |-> IF j - 1 >= first /\ (j - 1 - first) % period = 0
                    THEN rows ELSE 0]

EdgeLens == 47..MaxEdgeLen
Firsts == {0, 1, 10}

\* Profiles with two lags of equal autocorrelation in exact arithmetic.  The
\* mean of the first is a float32 and the sums at lags 8 and 18 stay equal;
\* the mean of the second is rounded, which puts lag 21 above lag 7.
TiedEdgeProfiles ==
    {[j \in 1..50 |-> IF j - 1 \in {0, 28, 34, 42, 46} THEN 1 ELSE 0],
     [j \in 1..56 |-> IF j - 1 \in {0, 21, 28, 38} THEN 1 ELSE 0]}

EdgeProfiles ==
    {EdgeTrain(n, period, first, rows) :
        n \in EdgeLens, period \in 1..MaxPeriod, first \in Firsts, rows \in 0..MaxEdgeRows}
    \cup TiedEdgeProfiles

InitEdges ==
    /\ pc = "ready"
    /\ gray = <<>>
    /\ edge_profile \in EdgeProfiles
    /\ lag = None
    /\ spacing_px = None
    /\ BandIdle
    /\ PeakIdle
    /\ MainIdle
    /\ ResizeIdle

EstimateSpacing ==
    /\ pc = "ready"
    /\ \E res \in EstimateFringeSpacingPx(edge_profile) :
         /\ lag' = res[1]
         /\ spacing_px' = res[2]
    /\ pc' = "done"
    /\ UNCHANGED <<gray, edge_profile, bandVars, peakVars, mainVars, resizeVars>>

NextEdges == EstimateSpacing

SpecEdges == InitEdges /\ [][NextEdges]_vars

\* ------------------------------------------ batch flow (measure_fringes.py)
MaxImages == 2

\* A whole number as an answer typed to ask_float.
Whole(n) == <<n, 1>>

\* math.hypot on a pair of offsets whose squares add up to a square: the
\* point pairs drawn below are all of that kind.
Hypot(dx, dy) ==
    LET d2 == dx * dx + dy * dy
    IN  CHOOSE r \in 0..d2 : r * r = d2

\* Faulty variant: a known length of 0 passes.
InvalidLength_Negative(known) == known = None \/ known[1][1] < 0
\* `known_mm is None or known_mm <= 0`
InvalidLength(known) == known = None \/ known[1][1] <= 0

\* Lines 169-191: None where the code raises RuntimeError, else <<scale>>.
MmPerPxFromCalibration(img_ok, pts, known) ==
    IF ~img_ok THEN None
    ELSE IF pts = None THEN None
    ELSE IF InvalidLength(known) THEN None
    ELSE LET dist_px == Hypot(pts[2][1] - pts[1][1], pts[2][2] - pts[1][2])
         IN  IF dist_px <= 0 THEN None
             ELSE Some(FloatDiv(AsFloat(known[1]), FloatOf(dist_px), DoubleBits))

\* Lines 288-301: the pair <<wavelength_nm, slit_to_screen_mm>> kept from the
\* two answers; the distance is asked only after a wavelength was given.
OpticsInputs(wl, d) ==
    IF wl = None THEN <<None, None>>
    ELSE IF d = None THEN <<None, None>>
    ELSE <<wl, d>>

\* The float 1e-6 of `wavelength_nm * 1e-6`.
NmToMm == AsFloat(<<1, 1000000>>)

\* Line 335: spacing_px * mm_per_px, where spacing_px is float(lag).
SpacingMm(sp_px, scale) ==
    IF sp_px = None THEN None
    ELSE Some(FloatMul(FloatOf(sp_px[1]), scale, DoubleBits))

\* Lines 338-339: (wavelength_nm * 1e-6 * slit_to_screen_mm) / spacing_mm.
SlitWidthOf(wl, d, sp_mm) ==
    FloatDiv(FloatMul(FloatMul(AsFloat(wl), NmToMm, DoubleBits), AsFloat(d), DoubleBits),
             sp_mm, DoubleBits)

\* Faulty variant: a slit width of 0 where the optics inputs are missing.
SlitWidthMm_ZeroWhenWithheld(wl, d, sp_mm) ==
    IF sp_mm = None THEN None
    ELSE IF wl # None /\ d # None /\ FloatLess(FloatZero, sp_mm[1])
    THEN Some(SlitWidthOf(wl[1], d[1], sp_mm[1]))
    ELSE Some(FloatZero)

\* Lines 331-339: slit_width_mm of one image.
SlitWidthMm(wl, d, sp_mm) ==
    IF sp_mm = None THEN None
    ELSE IF wl # None /\ d # None /\ FloatLess(FloatZero, sp_mm[1])
    THEN Some(SlitWidthOf(wl[1], d[1], sp_mm[1]))
    ELSE None

\* f"{x:.3f}" and f"{x:.6f}" of a float x >= 0: the whole number of
\* thousandths or millionths nearest to the binary value of x, the even one
\* when x lies halfway, kept as that number.  The empty field "" is None.
Thousandths == 1000
Millionths == 1000000
Rounded(x, units) == NearestWhole(x, units)
Field(x, units) == IF x = None THEN None ELSE Some(Rounded(x[1], units))

\* Lines 346-353: the row appended for one image.
Row(sp_px, sp_mm, sw_mm) ==
    [spacing_px |-> Field(IF sp_px = None THEN None ELSE Some(FloatOf(sp_px[1])),
                          Thousandths),
     spacing_mm |-> Field(sp_mm, Millionths),
     slit_width_mm |-> Field(sw_mm, Millionths)]

\* Clicked points, and the pairs of them a whole number of pixels apart.
CalibPoints == {<<0, 0>>, <<3, 4>>, <<6, 8>>}
PointPairs == {<<p0, p1>> : p0 \in CalibPoints, p1 \in CalibPoints}
\* Answers to the known-length question: none, negative, zero, 5 and 2.5 mm,
\* 1 mm (a scale that is rounded) and 0.01953125 mm (a spacing_mm halfway
\* between two millionths).
KnownLengths ==
    {None, Some(<<-1, 1>>), Some(Whole(0)), Some(Whole(5)), Some(<<5, 2>>),
     Some(Whole(1)), Some(<<5, 256>>)}
\* Answers to the optics questions: none, 0, 650 nm; none, 1000 mm.
WavelengthAnswers == {None, Some(Whole(0)), Some(Whole(650))}
DistanceAnswers == {None, Some(Whole(1000))}
\* Edge profiles of the images of the session folder: no edges, and edges
\* every 10 and every 20 columns.
BatchProfiles ==
    {EdgeTrain(50, 1, 0, 0), EdgeTrain(50, 10, 0, 1), EdgeTrain(50, 20, 0, 1)}

InitMain ==
    /\ pc = "calibrate"
    /\ gray = <<>>
    /\ BandIdle
    /\ PeakIdle
    /\ EdgeIdle
    /\ MainIdle
    /\ ResizeIdle

\* Lines 275-277: no calibration photo picked.
CancelCalibration ==
    /\ pc = "calibrate"
    /\ pc' = "cancelled"
    /\ UNCHANGED <<gray, bandVars, peakVars, edgeVars, mainVars, resizeVars>>

\* Lines 279-283: the calibration, and the return of main when it raises.
\* The points are asked for only on a readable photo, the length only once
\* two points were picked.
Calibrate ==
    /\ pc = "calibrate"
    /\ \E img_ok \in BOOLEAN :
       \E pts \in (IF img_ok THEN {None} \cup PointPairs ELSE {None}) :
       \E known \in (IF pts # None THEN KnownLengths ELSE {None}) :
       \E scale \in {MmPerPxFromCalibration(img_ok, pts, known)} :
          /\ calib_img' = img_ok
          /\ calib_pts' = pts
          /\ known_mm' = known
          /\ mm_per_px' = scale
          /\ pc' = IF scale = None THEN "failed" ELSE "optics"
    /\ UNCHANGED <<gray, bandVars, peakVars, edgeVars, batchVars, resizeVars>>

\* Lines 288-301.
AskOptics ==
    /\ pc = "optics"
    /\ \E wl \in WavelengthAnswers :
       \E d \in (IF wl # None THEN DistanceAnswers ELSE {None}) :
          /\ optics_answers' = <<wl, d>>
          /\ wavelength_nm' = OpticsInputs(wl, d)[1]
          /\ slit_to_screen_mm' = OpticsInputs(wl, d)[2]
    /\ pc' = "folder"
    /\ UNCHANGED <<gray, bandVars, peakVars, edgeVars, calibVars, spacing_mm,
                   slit_width_mm, csv_rows, resizeVars>>

\* Lines 304-306.
PickFolder ==
    /\ pc = "folder"
    /\ \E picked \in BOOLEAN : pc' = IF picked THEN "batch" ELSE "cancelled"
    /\ UNCHANGED <<gray, bandVars, peakVars, edgeVars, mainVars, resizeVars>>

\* Lines 316-353: one readable image of the folder (an unreadable one is
\* skipped without a trace).
ProcessImage ==
    /\ pc = "batch"
    /\ Len(csv_rows) < MaxImages
    /\ \E p \in BatchProfiles :
       \E res \in EstimateFringeSpacingPx(p) :
       \E sp_mm \in {SpacingMm(res[2], mm_per_px[1])} :
       \E sw_mm \in {SlitWidthMm(wavelength_nm, slit_to_screen_mm, sp_mm)} :
          /\ edge_profile' = p
          /\ lag' = res[1]
          /\ spacing_px' = res[2]
          /\ spacing_mm' = sp_mm
          /\ slit_width_mm' = sw_mm
          /\ csv_rows' = Append(csv_rows, Row(res[2], sp_mm, sw_mm))
    /\ UNCHANGED <<pc, gray, bandVars, peakVars, calibVars, optics_answers,
                   wavelength_nm, slit_to_screen_mm, resizeVars>>

\* Lines 355-360: the folder is exhausted and the rows are written.
WriteCsv ==
    /\ pc = "batch"
    /\ pc' = "written"
    /\ UNCHANGED <<gray, bandVars, peakVars, edgeVars, mainVars, resizeVars>>

NextMain ==
    \/ CancelCalibration
    \/ Calibrate
    \/ AskOptics
    \/ PickFolder
    \/ ProcessImage
    \/ WriteCsv

SpecMain == InitMain /\ [][NextMain]_vars

\* ---------------------------------------------------- peak-spacing claims
Measured == pc \in {"done", "again"}

\* C4 as claimed: a constant profile (all-zero included) never gives a
\* numeric spacing, whatever the threshold, min_peaks and max_std_ratio.
C4_FlatIsUndetermined ==
    (Measured /\ NumCols(gray) > 0 /\ IsConstant(ColumnSum(gray))) => spacing = None

\* The profile is k peaks of height c, S apart, the first at 0-based column
\* `first`, on zeros.
IsComb(profile, k, S, first, c) ==
    /\ first + (k - 1) * S <= Len(profile) - 1
    /\ \A j \in 1..Len(profile) :
          profile[j] = (IF /\ j - 1 >= first
                           /\ (j - 1 - first) % S = 0
                           /\ (j - 1 - first) \div S < k
                        THEN c ELSE 0)

DefaultConfig ==
    /\ peak_threshold = DefaultPeakThreshold
    /\ max_std_ratio = DefaultMaxStdRatio
    /\ min_peaks = DefaultMinPeaks

\* spacing is a number within 1 of S.
SpacingNear(S) ==
    /\ spacing # None
    /\ FloatAtLeast(spacing[1], FloatOf(S - 1))
    /\ FloatAtLeast(FloatOf(S + 1), spacing[1])

\* The 0-based column of the first non-zero sample (the profile is not all-zero).
FirstPeak(profile) ==
    CHOOSE i \in 0..(Len(profile) - 1) :
        profile[i + 1] # 0 /\ \A j \in 1..i : profile[j] = 0

\* The combs (k, S, first) with k >= 3 and S > 2 that the profile row is.
CombsOf(row) ==
    IF \A j \in 1..Len(row) : row[j] = 0 THEN {}
    ELSE {c \in {<<k, S, first>> : k \in 3..Len(row), S \in 3..Len(row),
                                    first \in {FirstPeak(row)}} :
            /\ row[c[3] + 1] > 0
            /\ IsComb(row, c[1], c[2], c[3], row[c[3] + 1])}

\* C5 as claimed: every comb of k >= 3 unit peaks S > 2 apart, wherever it
\* lies in the profile, gives under the default configuration a spacing
\* within 1 of S and exactly k peaks.
C5_CombAnywhere ==
    (Measured /\ DefaultConfig) =>
        \A c \in CombsOf(ColumnSum(gray)) :
            SpacingNear(c[2]) /\ Len(peaks) = c[1]

\* C5 amended: the same for the combs whose peaks are all interior columns
\* (neither the first nor the last column of the profile).
C5_InteriorComb ==
    (Measured /\ DefaultConfig) =>
        \A c \in CombsOf(ColumnSum(gray)) :
            (c[3] >= 1 /\ c[3] + (c[1] - 1) * c[2] <= NumCols(gray) - 2)
                => (SpacingNear(c[2]) /\ Len(peaks) = c[1])

C5_Witness ==
    /\ pc = "done"
    /\ DefaultConfig
    /\ IsComb(ColumnSum(gray), 4, 4, 1, 1)
    /\ NumCols(gray) = 15
    /\ spacing = Some(FloatOf(4))
    /\ peaks = <<1, 5, 9, 13>>

\* The consecutive peak-to-peak distances of the returned list that are > 1:
\* how many, their sum and the sum of their squares.
Gap(i) == peaks[i + 1] - peaks[i]
GapIndices == {i \in 1..(Len(peaks) - 1) : Gap(i) > 1}
GapCount == Cardinality(GapIndices)
GapSum == SumTo([i \in 1..(Len(peaks) - 1) |-> IF i \in GapIndices THEN Gap(i) ELSE 0],
                IF Len(peaks) = 0 THEN 0 ELSE Len(peaks) - 1)
GapSquares == SumTo([i \in 1..(Len(peaks) - 1) |->
                        IF i \in GapIndices THEN Gap(i) * Gap(i) ELSE 0],
                    IF Len(peaks) = 0 THEN 0 ELSE Len(peaks) - 1)

\* The same distances in the order of the list.
ValidGaps ==
    LET Keep(d) == d > 1
    IN  SelectSeq([i \in 1..(Len(peaks) - 1) |-> Gap(i)], Keep)

\* (std / mean)^2 against max_std_ratio^2 in whole numbers, both sides
\* multiplied by the squares of the sum and of the denominator of the ratio.
SpreadSide == (GapCount * GapSquares - GapSum * GapSum) * max_std_ratio[2] * max_std_ratio[2]
RatioSide == max_std_ratio[1] * max_std_ratio[1] * GapSum * GapSum

\* (population standard deviation / mean) <= max_std_ratio, for a mean > 0.
\* Where the two are equal in exact arithmetic the floats are compared: the
\* rounding of the standard deviation decides.
RegularEnough ==
    /\ max_std_ratio[1] >= 0
    /\ IF SpreadSide = RatioSide
       THEN FloatAtLeast(AsFloat(max_std_ratio),
                         FloatDiv(Std(ValidGaps), Mean(ValidGaps), DoubleBits))
       ELSE SpreadSide < RatioSide

\* C6: the spacing is a number if and only if at least min_peaks peaks were
\* found, at least 2 valid spacings remain, their mean is > 0 and
\* (population std / mean) <= max_std_ratio; the number is then the mean of
\* the valid spacings, as a float; otherwise the spacing is None.
C6_AcceptedIffRegular ==
    Measured =>
        /\ spacing # None <=>
              (/\ Len(peaks) >= min_peaks
               /\ GapCount >= 2
               /\ GapSum > 0
               /\ RegularEnough)
        /\ spacing # None => spacing[1] = FloatOfRatio(GapSum, GapCount, DoubleBits)

\* Accepted although the two spacings differ (3 and 4: std/mean = 1/7).
C6_Witness ==
    /\ pc = "done"
    /\ peaks = <<1, 4, 8>>
    /\ max_std_ratio = <<1, 5>>
    /\ min_peaks = 3
    /\ spacing = Some(Dyadic(<<7>>, -1))

\* C7: measuring the same image with the same threshold again, with any other
\* min_peaks and max_std_ratio, returns the same peak list, accepted or not.
C7_PeaksIndependentOfAcceptance ==
    [][(pc = "done" /\ pc' = "again") => peaks' = peaks]_vars

\* Irregular spacings (3 and 5: std/mean = 1/4 > 1/5): the spacing is rejected
\* on the second measurement and the three peaks are still returned.
C7_Witness ==
    /\ pc = "again"
    /\ peaks = <<1, 4, 9>>
    /\ max_std_ratio = <<1, 5>>
    /\ min_peaks = 3
    /\ spacing = None

\* max(0, min(1, peak_threshold)), stated from the claim, as a float.
ClampedThreshold ==
    IF peak_threshold[1] < 0 THEN FloatZero
    ELSE IF peak_threshold[1] > peak_threshold[2] THEN FloatOf(1)
    ELSE AsFloat(peak_threshold)

\* Column i (0-based) of the normalised profile is an interior local maximum
\* whose value is at or above the threshold t.
IsCandidate(profile, t, i) ==
    /\ i >= 1 /\ i <= Len(profile) - 2
    /\ ~FloatLess(profile[i + 1], profile[i])
    /\ ~FloatLess(profile[i + 1], profile[i + 2])
    /\ ~FloatLess(profile[i + 1], t)

PeakSet == {peaks[n] : n \in 1..Len(peaks)}

PeaksWellFormed(profile, t) ==
    /\ \A n \in 1..(Len(peaks) - 1) : peaks[n] < peaks[n + 1]
    /\ \A p \in PeakSet : IsCandidate(profile, t, p)
    /\ \A i \in 1..(Len(profile) - 2) :
          (IsCandidate(profile, t, i) /\ i \notin PeakSet) =>
              \E p \in PeakSet :
                  /\ p < i /\ i - p <= 2
                  /\ \A q \in PeakSet : q < i => q <= p

\* C8: the peak list is strictly increasing, holds only interior columns
\* whose normalised value is >= both neighbours and >= the clamped
\* threshold, and a candidate is missing only if it is within 2 columns of
\* the peak accepted before it.
C8_PeaksWellFormed ==
    Measured =>
        /\ NumCols(gray) > 0
        /\ \A profile \in {Normalised(gray)} : PeaksWellFormed(profile, ClampedThreshold)

\* A flat top of two columns: the candidate 2 is suppressed by the peak
\* accepted at column 1.
C8_Witness ==
    /\ pc = "done"
    /\ gray = <<(<<0, 2, 2, 1>>)>>
    /\ peak_threshold = <<7, 20>>
    /\ peaks = <<1>>

\* -------------------------------------------------- autocorrelation claims
\* The profile passes the signal checks of lines 212-217.
PassesSignalChecks(p) ==
    /\ Len(p) >= 50
    /\ \E i \in 1..Len(p) : p[i] > 0
    /\ ~IsConstant(p)

\* The closed lag window [max(5, floor(0.01 n)), min(n - 1, floor(0.5 n))].
ClosedWindow(n) ==
    (IF n \div 100 > 5 THEN n \div 100 ELSE 5)..(IF n \div 2 < n - 1 THEN n \div 2 ELSE n - 1)

\* k is a lag of W at which ac, a function of the lag, is greatest: no lag of
\* W has a sum above it that an FFT of energy `energy` tells apart.
IsMaximum(ac, W, k, energy) ==
    /\ k \in W
    /\ \A m \in W : AtMostWithin(ac[m], ac[k], 2, energy)

\* C9: on a profile of length >= 50 that passes the signal checks the result
\* is the lag of greatest autocorrelation in the closed window, if that
\* autocorrelation is > 0, and None otherwise; so a strict maximum at the
\* upper bound of the window is returned.  Between lags whose sums are equal
\* the rounding of the FFT decides which value is the first maximum.
C9_MaximumOfClosedWindow ==
    (pc = "done" /\ PassesSignalChecks(edge_profile)) =>
        \A c \in {Centred(edge_profile)} :
            \A ac \in {[k \in ClosedWindow(Len(edge_profile)) |-> AutoCorr(c, k)]},
               energy \in {AutoCorr(c, 0)} :
                \E k \in ClosedWindow(Len(edge_profile)) :
                    /\ IsMaximum(ac, ClosedWindow(Len(edge_profile)), k, energy)
                    /\ \/ spacing_px = Some(k) /\ MaybePositive(ac[k], energy)
                       \/ spacing_px = None /\ MaybeNotPositive(ac[k], energy)

\* C10: a profile shorter than 50, with a maximum <= 0, or constant gives
\* None; a profile of length >= 50 is rejected only for a maximum <= 0, for
\* being constant, or for an autocorrelation at the selected lag that is not
\* positive, as far as the FFT tells.
C10_RejectionReasons ==
    pc = "done" =>
        /\ (\/ Len(edge_profile) < 50
            \/ \A i \in 1..Len(edge_profile) : edge_profile[i] <= 0
            \/ IsConstant(edge_profile)) => spacing_px = None
        /\ (Len(edge_profile) >= 50 /\ spacing_px = None) =>
              \/ \A i \in 1..Len(edge_profile) : edge_profile[i] <= 0
              \/ IsConstant(edge_profile)
              \/ /\ lag # None
                 /\ \A c \in {Centred(edge_profile)} :
                        \A sum \in {AutoCorr(c, lag[1])}, energy \in {AutoCorr(c, 0)} :
                            MaybeNotPositive(sum, energy)

\* Two edge columns 25 apart in 50 columns: every lag the code looks at has a
\* negative autocorrelation, and the profile is rejected for that alone.
C10_Witness ==
    /\ pc = "done"
    /\ edge_profile = EdgeTrain(50, 25, 10, 1)
    /\ lag # None
    /\ spacing_px = None

\* --------------------------------------- _resize_if_needed (fringe_eval.py)
MaxSide == 22
MaxDimension == 15

\* int(side * scale) with scale = max_dimension / largest_side: the quotient
\* and the product are rounded floats, so the whole part can be one below
\* the exact floor (22 * (15 / 22) is 14.999999999999998).
Scaled(side, m, largest_side) ==
    Truncated(FloatMul(FloatOf(side),
                       FloatDiv(FloatOf(m), FloatOf(largest_side), DoubleBits),
                       DoubleBits))

\* Lines 17-27: <<new_size, resized>>, new_size being the <<width, height>>
\* handed to cv2.resize, or None when the image is returned as it is.
ResizeIfNeeded(h, w, m) ==
    IF m <= 0 THEN <<None, FALSE>>
    ELSE LET largest_side == IF h > w THEN h ELSE w
         IN  IF largest_side <= m THEN <<None, FALSE>>
             ELSE <<Some(<<Scaled(w, m, largest_side), Scaled(h, m, largest_side)>>),
                    TRUE>>

\* cv2.resize raises cv2.error on a destination size with a zero side.
ResizeRaises(size) == size # None /\ (size[1][1] <= 0 \/ size[1][2] <= 0)

InitResize ==
    /\ pc = "ready"
    /\ gray = <<>>
    /\ BandIdle
    /\ PeakIdle
    /\ EdgeIdle
    /\ MainIdle
    /\ height \in 1..MaxSide
    /\ width \in 1..MaxSide
    /\ max_dimension \in -1..MaxDimension
    /\ new_size = None
    /\ resized = FALSE

\* One call: "unchanged" or "resized" when it returns, "error" when
\* cv2.resize raises and no flag is returned.
Resize ==
    /\ pc = "ready"
    /\ \E res \in {ResizeIfNeeded(height, width, max_dimension)} :
          /\ new_size' = res[1]
          /\ resized' = IF ResizeRaises(res[1]) THEN FALSE ELSE res[2]
          /\ pc' = IF ResizeRaises(res[1]) THEN "error"
                   ELSE IF res[2] THEN "resized" ELSE "unchanged"
    /\ UNCHANGED <<gray, bandVars, peakVars, edgeVars, mainVars, height, width,
                   max_dimension>>

NextResize == Resize

SpecResize == InitResize /\ [][NextResize]_vars

\* ------------------------------------------------------ calibration claims
\* The square of the pixel distance between the two picked points.
PixelDistance2 ==
    (calib_pts[2][1] - calib_pts[1][1]) * (calib_pts[2][1] - calib_pts[1][1]) +
    (calib_pts[2][2] - calib_pts[1][2]) * (calib_pts[2][2] - calib_pts[1][2])

PointsCoincide == calib_pts # None /\ calib_pts[1] = calib_pts[2]

CalibrationRan == pc \notin {"calibrate", "cancelled"} \/ mm_per_px # None

\* The float x is num / den to within the fraction 2^-digits of it: with
\* x = m * 2^e, on whole numbers,
\* |m * 2^e * den - num| * 2^digits <= num.
Within(x, num, den, digits) ==
    LET left == BigMul(BigShl(x[1], IF x[2] > 0 THEN x[2] ELSE 0), den)
        right == BigShl(num, IF x[2] < 0 THEN -x[2] ELSE 0)
        gap == IF BigCmp(left, right) < 0 THEN BigSub(right, left)
               ELSE BigSub(left, right)
    IN  BigCmp(BigShl(gap, digits), right) <= 0

\* The whole number whose square is PixelDistance2, a square here.
PixelDistance == CHOOSE r \in 0..PixelDistance2 : r * r = PixelDistance2

\* C11: the calibration is rejected (main stops, no scale exists) exactly
\* when the known length is missing or <= 0 or the two points coincide;
\* otherwise the scale is strictly positive and is known length / pixel
\* distance as a float has it, to within 2^-53 of the quotient.  Points
\* 10 px apart with a known length of 5 give the scale 1/2 exactly, under
\* which a spacing of 20 px is 10 mm.
C11_CalibrationRejectedOrScale ==
    CalibrationRan =>
        IF known_mm = None \/ known_mm[1][1] <= 0 \/ PointsCoincide
        THEN pc = "failed" /\ mm_per_px = None
        ELSE /\ pc # "failed"
             /\ mm_per_px # None
             /\ mm_per_px[1][1] # <<>>
             /\ Within(mm_per_px[1], BigOf(known_mm[1][1]),
                       BigOf(known_mm[1][2] * PixelDistance), 53)
             /\ (PixelDistance2 = 100 /\ known_mm = Some(Whole(5))
                    => /\ mm_per_px = Some(<<(<<1>>), -1>>)
                       /\ (spacing_px = Some(20) => spacing_mm = Some(FloatOf(10))))

C11_Witness ==
    /\ pc = "batch"
    /\ calib_pts = <<(<<0, 0>>), (<<6, 8>>)>>
    /\ known_mm = Some(Whole(5))
    /\ mm_per_px = Some(<<(<<1>>), -1>>)
    /\ spacing_px = Some(20)
    /\ spacing_mm = Some(FloatOf(10))
    /\ csv_rows[Len(csv_rows)].spacing_mm = Some(10000000)

\* ------------------------------------------------------- slit-width claims
\* Both optics questions were answered with a number.
OpticsSupplied ==
    /\ optics_answers # None
    /\ optics_answers[1] # None
    /\ optics_answers[2] # None

\* wavelength * distance / (10^6 * spacing_mm) as a quotient of two whole
\* numbers, spacing_mm being the float m * 2^e.
SlitNumerator ==
    BigShl(BigOf(optics_answers[1][1][1] * optics_answers[2][1][1]),
           IF spacing_mm[1][2] < 0 THEN -spacing_mm[1][2] ELSE 0)
SlitDenominator ==
    BigMul(BigShl(spacing_mm[1][1], IF spacing_mm[1][2] > 0 THEN spacing_mm[1][2] ELSE 0),
           BigOf(1000000 * optics_answers[1][1][2] * optics_answers[2][1][2]))

\* C12: in the batch flow an image gets a slit width exactly when its pixel
\* spacing is determined, its physical spacing is > 0 and both optics
\* inputs were supplied, and the value is then
\* wavelength_nm * 1e-6 * distance / physical spacing as floats have it (to
\* within 2^-50 of the quotient); with either optics input withheld the
\* slit-width field of every row is empty, never 0.
C12_SlitWidthIffSupplied ==
    (pc \in {"batch", "written"} /\ csv_rows # <<>>) =>
        /\ slit_width_mm # None
               <=> /\ spacing_px # None
                   /\ spacing_mm # None
                   /\ spacing_mm[1][1] # <<>>
                   /\ OpticsSupplied
        /\ slit_width_mm # None =>
               Within(slit_width_mm[1], SlitNumerator, SlitDenominator, 50)
        /\ csv_rows[Len(csv_rows)].slit_width_mm = Field(slit_width_mm, Millionths)
        /\ \A i \in 1..Len(csv_rows) :
               /\ csv_rows[i].slit_width_mm # None
                      <=> (csv_rows[i].spacing_px # None /\ OpticsSupplied)
               /\ ~OpticsSupplied => /\ csv_rows[i].slit_width_mm = None
                                     /\ csv_rows[i].slit_width_mm # Some(0)

C12_Witness ==
    /\ pc = "written"
    /\ optics_answers = <<Some(Whole(650)), Some(Whole(1000))>>
    /\ Len(csv_rows) = 2
    /\ csv_rows[1].slit_width_mm = None
    /\ spacing_mm = Some(FloatOf(5))
    /\ slit_width_mm = Some(AsFloat(<<13, 100>>))
    /\ csv_rows[2].slit_width_mm = Some(130000)

\* ------------------------------------------------------ peak-gap claims
\* Every pair of consecutive peaks; GapIndices are those that pass `> 1`
\* of line 51.
PeakPairs == 1..(Len(peaks) - 1)

PeaksThreeApart == \A i \in PeakPairs : Gap(i) >= 3

\* C13, as stated: consecutive accepted peaks are at least 3 columns apart,
\* the number of valid spacings always equals the number of peaks - 1, every
\* valid spacing is >= 3, and a numeric spacing is >= 3.
C13_ValidSpacingsAlwaysPeaksMinusOne ==
    Measured =>
        /\ PeaksThreeApart
        /\ GapCount = Len(peaks) - 1
        /\ \A i \in GapIndices : Gap(i) >= 3
        /\ spacing # None => FloatAtLeast(spacing[1], FloatOf(3))

\* C13, amended: the filter removes nothing, so the count is the number of
\* peaks - 1 once there is a peak, and 0 when there is none.
C13_FilterRemovesNothing ==
    Measured =>
        /\ PeaksThreeApart
        /\ GapIndices = PeakPairs
        /\ Len(peaks) >= 1 => GapCount = Len(peaks) - 1
        /\ Len(peaks) = 0 => GapCount = 0
        /\ \A i \in GapIndices : Gap(i) >= 3
        /\ spacing # None => FloatAtLeast(spacing[1], FloatOf(3))

C13_Witness ==
    /\ Measured
    /\ peaks = <<1, 4, 7>>
    /\ GapCount = 2
    /\ spacing = Some(FloatOf(3))

\* ----------------------------------------------------------- resize claims
LargestSide == IF height > width THEN height ELSE width

\* C14: with max_dimension <= 0 or the largest side <= max_dimension the
\* image is returned unchanged with resized false; otherwise resized is true
\* and the new size (floor(w * max_dimension / largest side),
\* floor(h * max_dimension / largest side)) has both sides at least 1 and at
\* most max_dimension, whatever the aspect ratio.
C14_ResizedWithinBounds ==
    pc # "ready" =>
        IF max_dimension <= 0 \/ LargestSide <= max_dimension
        THEN pc = "unchanged" /\ new_size = None /\ resized = FALSE
        ELSE /\ pc = "resized"
             /\ resized = TRUE
             /\ new_size = Some(<<(width * max_dimension) \div LargestSide,
                                  (height * max_dimension) \div LargestSide>>)
             /\ new_size[1][1] >= 1 /\ new_size[1][1] <= max_dimension
             /\ new_size[1][2] >= 1 /\ new_size[1][2] <= max_dimension
====
